---- MODULE Spec2Model ----
(***************************************************************************)
(* A model of libheif's plugin runtime, libheif/heif_init.cc: the          *)
(* init/deinit reference count of the library, the registry of            *)
(* dynamically loaded plugins (sLoadedPlugins), the loader and unloader,  *)
(* the directory scanner, and the two type-specific registrars the file   *)
(* iterates and clears (heif::s_decoder_plugins,                          *)
(* heif::s_encoder_descriptors).                                          *)
(*                                                                         *)
(* The model follows the build with ENABLE_PLUGIN_LOADING,                *)
(* ENABLE_MULTITHREADING_SUPPORT and __linux__.  heif_init, heif_deinit,  *)
(* heif_load_plugin, heif_unload_plugin and heif_unload_all_plugins hold  *)
(* the recursive mutex for their whole body, so each is one atomic        *)
(* action.  heif_load_plugins takes no lock: a scan called directly by a  *)
(* thread is a sequence of steps, one per readdir() entry, and the        *)
(* actions of other threads interleave between them; the scans heif_init  *)
(* starts run inside heif_init's critical section.                        *)
(*                                                                         *)
(* heif_load_plugin's out_plugin is the channel of the loader's result    *)
(* and is always supplied (the scanner passes &info, line 470).           *)
(***************************************************************************)
EXTENDS Integers, Sequences, FiniteSets, TLC

-----------------------------------------------------------------------------
(* Bounds of the model *)

\* heif_init is not called when the count has reached MaxInit
MaxInit == 3
\* at most MaxOpen dlopen() references are held at any time, over all modules
MaxOpen == 3
\* no function table is in a registrar more than MaxReg times
MaxReg == 2
\* output_array_size ranges over 0..MaxCap
MaxCap == 2
\* at most MaxInterleave calls of other threads take effect during one scan
MaxInterleave == 1

-----------------------------------------------------------------------------
(* The plugins and the modules *)

\* the function tables register_default_plugins() registers
BuiltinEncoder == "builtin_encoder"
BuiltinDecoder == "builtin_decoder"

\* The loadable modules (shared objects) of the file system.  "enc" exports
\* an encoder plugin, "dec" a decoder plugin, "rej" an encoder plugin that
\* heif_register_encoder_plugin rejects, and "nosym" exports no plugin_info.
Modules == {"enc", "dec", "rej", "nosym"}

\* dlsym(handle, "plugin_info") is not null
HasSymbol(m) == m \in {"enc", "dec", "rej"}

\* A module's plugin_info lives in the module: the info pointer and the
\* function table info->plugin are identified with the module.
PluginInfos == {m \in Modules : HasSymbol(m)}

\* an info pointer that no module exports
StrayInfo == "stray"

\* plugin_info->type
PluginType(info) == IF info = "dec" THEN "decoder" ELSE "encoder"

EncoderTables == {BuiltinEncoder} \cup {i \in PluginInfos : PluginType(i) = "encoder"}
DecoderTables == {BuiltinDecoder} \cup {i \in PluginInfos : PluginType(i) = "decoder"}
Tables == EncoderTables \cup DecoderTables

\* plugin->cleanup_plugin / plugin->deinit_plugin is not null
HasHook(p) == p \in {BuiltinEncoder, "enc", "dec"}

\* the registrar refuses the table (heif_register_encoder_plugin returns an error)
RegistrarRejects(p) == p = "rej"

-----------------------------------------------------------------------------
(* The file system *)

DT_REG == "DT_REG"
DT_LNK == "DT_LNK"
DT_DIR == "DT_DIR"

Suffix == <<".", "s", "o">>

Entry(n, t, m) == [d_name |-> n, d_type |-> t, target |-> m]

\* The directories, each as the sequence of entries readdir() returns.
\* target is the module dlopen() maps for the entry, "none" if dlopen() fails.
Directory(d) ==
  CASE d = "plugins" ->
         << Entry(<<"a", ".", "s", "o">>, DT_REG, "dec"),
            Entry(<<"b", ".", "s", "o">>, DT_REG, "nosym"),
            Entry(<<"r", "e", "a", "d", "m", "e", ".", "t", "x", "t">>, DT_REG, "none") >>
    [] d = "extra" ->
         << Entry(<<"e", ".", "s", "o">>, DT_REG, "enc"),
            Entry(<<"n", ".", "s", "o">>, DT_REG, "none"),
            Entry(<<"l", ".", "s", "o">>, DT_LNK, "enc"),
            Entry(<<".", "s", "o">>, DT_REG, "none"),
            Entry(<<"d", ".", "s", "o">>, DT_DIR, "none"),
            Entry(<<"r", ".", "s", "o">>, DT_REG, "rej") >>
    [] OTHER -> << >>

\* opendir() succeeds
Readable(d) == d \in {"plugins", "extra", "empty"}

DirNames == {"plugins", "extra", "empty", "missing"}

\* the compiled-in default directory
LIBHEIF_PLUGIN_DIRECTORY == "plugins"

\* what get_plugin_paths() may return (the environment's search path)
PluginPathChoices == { << >>, <<"extra">>, <<"extra", "missing", "plugins">> }

Range(f) == {f[i] : i \in DOMAIN f}

\* file names: directory + '/' + d_name
Paths == UNION {{<<d, e.d_name>> : e \in Range(Directory(d))} : d \in DirNames}
           \cup {<<"extra", <<"z">>>>}

\* the module dlopen(path) maps, "none" if it fails
Dlopen(path) ==
  LET es == {e \in Range(Directory(path[1])) : e.d_name = path[2]}
  IN  IF es = {} THEN "none" ELSE (CHOOSE e \in es : TRUE).target

-----------------------------------------------------------------------------
(* The state *)

VARIABLES
  heif_library_initialization_count,
  default_plugins_registered,
  s_decoder_plugins,      \* function table -> number of entries for it
  s_encoder_descriptors,  \* function table -> number of descriptors for it
  sLoadedPlugins,         \* sequence of loaded_plugin
  dl_refcount,            \* module -> dlopen()s minus dlclose()s
  crashed,                \* a use of an unmapped module has faulted
  last,                   \* the operation that was last called, and its result
  scan,                   \* the directory scan a thread has in progress
  mutex,                  \* heif_init_mutex(): the owning thread and the depth
  pc                      \* thread -> the call it is in and where it is in it

vars == << heif_library_initialization_count, default_plugins_registered,
           s_decoder_plugins, s_encoder_descriptors, sLoadedPlugins,
           dl_refcount, crashed, last, scan, mutex, pc >>

\* The program's state as one record, for the operators below.  With it go
\* what a call does besides: hooks counts the calls of each table's cleanup
\* hook (cleanup_plugin, deinit_plugin), and ub says that a table or info
\* was used while its module was not mapped.
State ==
  [ count    |-> heif_library_initialization_count,
    defreg   |-> default_plugins_registered,
    decoders |-> s_decoder_plugins,
    encoders |-> s_encoder_descriptors,
    loaded   |-> sLoadedPlugins,
    dlref    |-> dl_refcount,
    hooks    |-> [p \in Tables |-> 0],
    ub       |-> FALSE ]

Commit(s) ==
  /\ heif_library_initialization_count' = s.count
  /\ default_plugins_registered' = s.defreg
  /\ s_decoder_plugins' = s.decoders
  /\ s_encoder_descriptors' = s.encoders
  /\ sLoadedPlugins' = s.loaded
  /\ dl_refcount' = s.dlref

\* struct loaded_plugin
loaded_plugin(h, i, n) == [plugin_library_handle |-> h, info |-> i, openCnt |-> n]

\* the module a function table lives in ("none": the library itself)
ModuleOf(p) == IF p \in PluginInfos THEN p ELSE "none"

\* the memory of table p is mapped
Mapped(s, p) == ModuleOf(p) = "none" \/ s.dlref[ModuleOf(p)] > 0

-----------------------------------------------------------------------------
(* The registrars (heif_plugin_registry) *)

\* register_decoder / register_encoder: append the table to the registrar
AddTable(reg, p) == [reg EXCEPT ![p] = @ + 1]

\* register_default_plugins(): the built-in decoder and encoder
register_default_plugins(s) ==
  [s EXCEPT !.decoders = AddTable(@, BuiltinDecoder),
            !.encoders = AddTable(@, BuiltinEncoder)]

\* heif_register_encoder_plugin(plugin): the error code and the state
heif_register_encoder_plugin(s, p) ==
  IF RegistrarRejects(p)
  THEN [err |-> "RegistrarError", s |-> s]
  ELSE [err |-> "ok", s |-> [s EXCEPT !.encoders = AddTable(@, p)]]

\* heif_register_decoder_plugin(plugin): the error code and the state
heif_register_decoder_plugin(s, p) ==
  IF RegistrarRejects(p)
  THEN [err |-> "RegistrarError", s |-> s]
  ELSE [err |-> "ok", s |-> [s EXCEPT !.decoders = AddTable(@, p)]]

-----------------------------------------------------------------------------
(* Unregistration, lines 113-147 and 201-213 *)

\* Every entry of the registrar reg has its hook called, if it has one.
\* Reading the hook of a table whose module is unmapped is undefined.
CallAllHooks(s, reg, tables) ==
  [s EXCEPT !.hooks = [p \in Tables |->
                         IF p \in tables /\ HasHook(p) THEN @[p] + reg[p] ELSE @[p]],
            !.ub = @ \/ \E p \in tables : reg[p] > 0 /\ ~Mapped(s, p)]

heif_unregister_decoder_plugins(s) ==
  [CallAllHooks(s, s.decoders, DecoderTables)
     EXCEPT !.decoders = [p \in DecoderTables |-> 0]]

heif_unregister_encoder_plugins(s) ==
  [CallAllHooks(s, s.encoders, EncoderTables)
     EXCEPT !.encoders = [p \in EncoderTables |-> 0]]

\* the hook is called if there is one; the first descriptor of the plugin is erased
heif_unregister_encoder_plugin(s, p) ==
  [s EXCEPT !.hooks[p] = IF HasHook(p) THEN @ + 1 ELSE @,
            !.encoders[p] = IF @ > 0 THEN @ - 1 ELSE @,
            !.ub = @ \/ ~Mapped(s, p)]

\* switch (info->type): the decoder case is empty
unregister_plugin(s, info) ==
  IF PluginType(info) = "encoder"
  THEN heif_unregister_encoder_plugin(s, info)
  ELSE [s EXCEPT !.ub = @ \/ ~Mapped(s, info)]

-----------------------------------------------------------------------------
(* heif_load_plugin, lines 225-285 *)

\* A loader without the search of lines 245-259: no handle is ever found in
\* the registry.
IndexOfHandle_NeverFound(seq, h) == 0

\* the index of the first entry of the registry with the handle h, 0 if none
IndexOfHandle(seq, h) ==
  IF \E i \in 1..Len(seq) : seq[i].plugin_library_handle = h
  THEN CHOOSE i \in 1..Len(seq) :
         /\ seq[i].plugin_library_handle = h
         /\ \A j \in 1..(i - 1) : seq[j].plugin_library_handle # h
  ELSE 0

\* lines 264-282: the plugin is registered with the registrar of its type
RegisterByType(s, info) ==
  IF PluginType(info) = "encoder"
  THEN heif_register_encoder_plugin(s, info)
  ELSE heif_register_decoder_plugin(s, info)

\* lines 264-284: what the loader returns for a new module, r being the
\* registrar's answer
LoadReturn(r, info) == [err |-> r.err, info |-> info, s |-> r.s]

\* lines 237-284: the module m is open, and i is its index in the registry (0: none)
LoadOpened(s, m, i) ==
  IF ~HasSymbol(m)
  THEN [err |-> "PluginLoadingError", info |-> "unset", s |-> s]
  ELSE IF i # 0
  THEN [err |-> "ok", info |-> s.loaded[i].info,
        s |-> [s EXCEPT !.loaded[i].openCnt = @ + 1]]
  ELSE LoadReturn(
         RegisterByType([s EXCEPT !.loaded = Append(@, loaded_plugin(m, m, 1))], m), m)

\* lines 231-235: m is what dlopen() returned
LoadModule(s, m) ==
  IF m = "none"
  THEN [err |-> "PluginLoadingError", info |-> "unset", s |-> s]
  ELSE LoadOpened([s EXCEPT !.dlref[m] = @ + 1], m, IndexOfHandle(s.loaded, m))

\* the error code, the value stored to *out_plugin ("unset" if none is) and the state
heif_load_plugin(s, path) == LoadModule(s, Dlopen(path))

-----------------------------------------------------------------------------
(* heif_unload_plugin, lines 351-376 *)

\* the index of the first entry of the registry with the info, 0 if none
IndexOfInfo(seq, info) ==
  IF \E i \in 1..Len(seq) : seq[i].info = info
  THEN CHOOSE i \in 1..Len(seq) :
         /\ seq[i].info = info
         /\ \A j \in 1..(i - 1) : seq[j].info # info
  ELSE 0

\* sLoadedPlugins[i] = sLoadedPlugins.back(); sLoadedPlugins.pop_back();
RemoveAt(seq, i) ==
  [j \in 1..(Len(seq) - 1) |-> IF j = i THEN seq[Len(seq)] ELSE seq[j]]

\* an unloader that leaves the entry in the registry at count 0
UnloadClosed_KeepsEntry(s, info, i) ==
  IF s.loaded[i].openCnt = 0
  THEN [err |-> "ok", s |-> unregister_plugin(s, info)]
  ELSE [err |-> "ok", s |-> s]

\* lines 364-371: entry i has been closed once and its count decremented
UnloadClosed(s, info, i) ==
  IF s.loaded[i].openCnt = 0
  THEN [err |-> "ok", s |-> [unregister_plugin(s, info) EXCEPT !.loaded = RemoveAt(@, i)]]
  ELSE [err |-> "ok", s |-> s]

\* An unloader that takes the registry's last entry when the search of
\* lines 357-373 finds none.
UnloadAt_FallsBackToLast(s, info, i) ==
  IF i = 0 /\ s.loaded = << >>
  THEN [err |-> "PluginNotLoaded", s |-> s]
  ELSE UnloadClosed(
         [s EXCEPT !.dlref[s.loaded[IF i = 0 THEN Len(s.loaded) ELSE i]
                             .plugin_library_handle] = @ - 1,
                   !.loaded[IF i = 0 THEN Len(s.loaded) ELSE i].openCnt = @ - 1],
         info, IF i = 0 THEN Len(s.loaded) ELSE i)

\* lines 357-375: i is the index of the entry found, 0 if there is none
UnloadAt(s, info, i) ==
  IF i = 0
  THEN [err |-> "PluginNotLoaded", s |-> s]
  ELSE UnloadClosed([s EXCEPT !.dlref[s.loaded[i].plugin_library_handle] = @ - 1,
                              !.loaded[i].openCnt = @ - 1],
                    info, i)

\* the error code and the state
heif_unload_plugin(s, info) == UnloadAt(s, info, IndexOfInfo(s.loaded, info))

-----------------------------------------------------------------------------
(* heif_unload_all_plugins, lines 407-422 *)

\* lines 416-418: dlclose() as often as the entry was opened
CloseAll(s, p) == [s EXCEPT !.dlref[p.plugin_library_handle] = @ - p.openCnt]

\* lines 413-419: the loop body for the entries i..Len of the registry
RECURSIVE UnloadFrom(_, _)
UnloadFrom(s, i) ==
  IF i > Len(s.loaded)
  THEN s
  ELSE UnloadFrom(CloseAll(unregister_plugin(s, s.loaded[i].info), s.loaded[i]), i + 1)

heif_unload_all_plugins(s) ==
  [UnloadFrom(s, 1) EXCEPT !.loaded = << >>]

-----------------------------------------------------------------------------
(* heif_load_plugins, lines 443-496 *)

\* the last three characters of a name: d_name + strlen(d_name) - 3
NameTail(name) == SubSeq(name, Len(name) - 2, Len(name))

\* A filter that takes a name of three characters too (strlen >= 3), and so
\* the file called ".so".
IsPluginFile_EmptyStem(e) ==
  /\ e.d_type = DT_REG \/ e.d_type = DT_LNK
  /\ Len(e.d_name) >= 3
  /\ NameTail(e.d_name) = Suffix

\* the condition of lines 462-463
IsPluginFile(e) ==
  /\ e.d_type = DT_REG \/ e.d_type = DT_LNK
  /\ Len(e.d_name) > 3
  /\ NameTail(e.d_name) = Suffix

\* The locals of a scan: nPlugins, the output array, whether the loop was
\* left by break, and (for the claims) the names for which heif_load_plugin
\* was called and how many of the calls returned no error.
ScanLocals ==
  [nPlugins |-> 0, buf |-> [i \in 0..MaxCap |-> "unset"], brk |-> FALSE,
   attempted |-> << >>, succeeded |-> 0]

\* lines 472-480: the loader returned no error
CountLoaded(sc, info, hasOut, cap) ==
  IF hasOut
  THEN IF sc.nPlugins = cap
       THEN [sc EXCEPT !.brk = TRUE]
       ELSE [sc EXCEPT !.buf[sc.nPlugins] = info, !.nPlugins = @ + 1]
  ELSE [sc EXCEPT !.nPlugins = @ + 1]

\* lines 470-481: r is what heif_load_plugin returned for the file called name
EntryLoaded(r, sc, name, hasOut, cap) ==
  [s |-> r.s,
   sc |-> IF r.err = "ok"
          THEN CountLoaded([sc EXCEPT !.attempted = Append(@, name), !.succeeded = @ + 1],
                           r.info, hasOut, cap)
          ELSE [sc EXCEPT !.attempted = Append(@, name)]]

\* lines 462-482: the loop body for one directory entry
ScanEntry(s, sc, dir, e, hasOut, cap) ==
  IF IsPluginFile(e)
  THEN EntryLoaded(heif_load_plugin(s, <<dir, e.d_name>>), sc, e.d_name, hasOut, cap)
  ELSE [s |-> s, sc |-> sc]

\* a scan that ends the list with a null wherever the list ends
ScanFinish_AlwaysTerminates(sc, hasOut, cap) ==
  IF hasOut
  THEN [sc EXCEPT !.buf[sc.nPlugins] = "null"]
  ELSE sc

\* lines 485-487: the null that ends the list
ScanFinish(sc, hasOut, cap) ==
  IF sc.nPlugins < cap /\ hasOut
  THEN [sc EXCEPT !.buf[sc.nPlugins] = "null"]
  ELSE sc

\* lines 456-483: the loop over the entries pos..to of the directory, r
\* being the state and the locals before entry pos
RECURSIVE ScanLoop(_, _, _, _, _, _)
ScanLoop(r, dir, pos, to, hasOut, cap) ==
  IF pos > to \/ r.sc.brk
  THEN r
  ELSE ScanLoop(ScanEntry(r.s, r.sc, dir, Directory(dir)[pos], hasOut, cap),
                dir, pos + 1, to, hasOut, cap)

\* lines 485-495: the loop is over; the count stored to *out_nPluginsLoaded
\* is -1 if none is
ScanReturn(r, sc, hasCnt) ==
  [err |-> "ok", s |-> r.s, sc |-> sc, count |-> IF hasCnt THEN sc.nPlugins ELSE -1]

ScanDone(r, hasOut, hasCnt, cap) ==
  ScanReturn(r, ScanFinish(r.sc, hasOut, cap), hasCnt)

\* the whole scan in one piece: the error code, the state, the locals, and
\* the count
heif_load_plugins(s, dir, hasOut, hasCnt, cap) ==
  IF ~Readable(dir)
  THEN [err |-> "CannotReadDirectory", s |-> s, sc |-> ScanLocals, count |-> -1]
  ELSE ScanDone(ScanLoop([s |-> s, sc |-> ScanLocals], dir, 1, Len(Directory(dir)),
                         hasOut, cap),
                hasOut, hasCnt, cap)

-----------------------------------------------------------------------------
(* heif_init, lines 70-110, and heif_deinit, lines 149-169 *)

\* lines 90-105: the default directory if the search path is empty
SearchPath(plugin_paths) ==
  IF plugin_paths = << >> THEN <<LIBHEIF_PLUGIN_DIRECTORY>> ELSE plugin_paths

\* lines 93-104: the directories dirs[i..] are scanned until a scan fails;
\* r is what the scan of dirs[i - 1] returned
RECURSIVE LoadFromPaths(_, _, _)
LoadFromPaths(r, dirs, i) ==
  IF r.err # "ok" \/ i > Len(dirs)
  THEN [err |-> r.err, s |-> r.s]
  ELSE LoadFromPaths(heif_load_plugins(r.s, dirs[i], FALSE, FALSE, 0), dirs, i + 1)

\* A first init that registers the built-in plugins without looking at
\* default_plugins_registered.
FirstInit_AlwaysRegisters(s, plugin_paths) ==
  LoadFromPaths([err |-> "ok", s |-> register_default_plugins(s)],
                SearchPath(plugin_paths), 1)

\* lines 78-107: the count has just become 1
FirstInit(s, plugin_paths) ==
  LoadFromPaths([err |-> "ok",
                 s |-> IF ~s.defreg THEN register_default_plugins(s) ELSE s],
                SearchPath(plugin_paths), 1)

\* an init that registers and scans whatever the count has become
Initialize_EveryCall(s, plugin_paths) == FirstInit(s, plugin_paths)

\* lines 78-109: the count has been incremented
Initialize(s, plugin_paths) ==
  IF s.count = 1 THEN FirstInit(s, plugin_paths) ELSE [err |-> "ok", s |-> s]

\* an init that takes its increment back when a scan fails
UndoCountOnError(r) ==
  IF r.err = "ok" THEN r ELSE [err |-> r.err, s |-> [r.s EXCEPT !.count = @ - 1]]

heif_init_RollsBack(s, plugin_paths) ==
  UndoCountOnError(Initialize([s EXCEPT !.count = @ + 1], plugin_paths))

\* plugin_paths is what get_plugin_paths() returns
heif_init(s, plugin_paths) ==
  Initialize([s EXCEPT !.count = @ + 1], plugin_paths)

\* A deinit that tears down whatever the count has become.
Deinitialize_EveryCall(s) ==
  heif_unload_all_plugins(
    [heif_unregister_encoder_plugins(heif_unregister_decoder_plugins(s))
       EXCEPT !.defreg = FALSE])

\* lines 162-168: the count has been decremented
Deinitialize(s) ==
  IF s.count = 0
  THEN heif_unload_all_plugins(
         [heif_unregister_encoder_plugins(heif_unregister_decoder_plugins(s))
            EXCEPT !.defreg = FALSE])
  ELSE s

\* A deinit without the guard of lines 155-157.
heif_deinit_Unguarded(s) == Deinitialize([s EXCEPT !.count = @ - 1])

heif_deinit(s) ==
  IF s.count = 0
  THEN s
  ELSE Deinitialize([s EXCEPT !.count = @ - 1])

-----------------------------------------------------------------------------
(* The specification *)

RECURSIVE SumOver(_, _)
SumOver(f, S) ==
  IF S = {} THEN 0
  ELSE LET x == CHOOSE x \in S : TRUE IN f[x] + SumOver(f, S \ {x})

\* the state stays within the bounds of the model
WithinBounds(s) ==
  /\ s.count <= MaxInit
  /\ SumOver(s.dlref, Modules) <= MaxOpen
  /\ \A p \in DecoderTables : s.decoders[p] <= MaxReg
  /\ \A p \in EncoderTables : s.encoders[p] <= MaxReg

\* what a scan hands back: its arguments, its locals and *out_nPluginsLoaded
NoScan == [dir |-> "none", hasOut |-> FALSE, cap |-> 0, sc |-> ScanLocals, count |-> -1]

NoHooks == [p \in Tables |-> 0]

\* The call that was made last: the operation, its error code ("fault" if
\* it did not return), the info pointer it was given or gave back, how often
\* it called each table's cleanup hook, the initialization count it found,
\* and what a scan handed back.
Called(op, result, info, hooks) ==
  [op |-> op, result |-> result, info |-> info, hooks |-> hooks,
   before |-> heif_library_initialization_count, scan |-> NoScan]

\* the scan's result, as the call that was made last
Scanned(err, dir, hasOut, cap, sc, count) ==
  [op |-> "scan", result |-> err, info |-> "none", hooks |-> NoHooks,
   before |-> heif_library_initialization_count,
   scan |-> [dir |-> dir, hasOut |-> hasOut, cap |-> cap, sc |-> sc, count |-> count]]

IdleScan ==
  [phase |-> "idle", dir |-> "none", hasOut |-> FALSE, hasCnt |-> FALSE, cap |-> 0,
   pos |-> 1, sc |-> ScanLocals, others |-> 0]

\* the threads of the process
Threads == {"t1", "t2"}

\* the recursive mutex when no thread owns it
Unlocked == [owner |-> "none", depth |-> 0]

\* a thread that is in no call of the library
Idle == [op |-> "idle", at |-> "idle", nested |-> 0, dir |-> "none", pos |-> 0]

unchanged_program ==
  UNCHANGED << heif_library_initialization_count, default_plugins_registered,
               s_decoder_plugins, s_encoder_descriptors, sLoadedPlugins,
               dl_refcount >>

\* The state after the library is loaded: the count is 0 and the built-in
\* plugins are registered (line 59: "implicitly registered at startup").
Init ==
  /\ heif_library_initialization_count = 0
  /\ default_plugins_registered = TRUE
  /\ s_decoder_plugins = [p \in DecoderTables |-> IF p = BuiltinDecoder THEN 1 ELSE 0]
  /\ s_encoder_descriptors = [p \in EncoderTables |-> IF p = BuiltinEncoder THEN 1 ELSE 0]
  /\ sLoadedPlugins = << >>
  /\ dl_refcount = [m \in Modules |-> 0]
  /\ crashed = FALSE
  /\ last = Called("none", "none", "none", NoHooks)
  /\ scan = IdleScan
  /\ mutex = Unlocked
  /\ pc = [t \in Threads |-> Idle]

\* Another thread's call takes effect while a scan is between two files;
\* at most MaxInterleave calls do during one scan.
OtherThread ==
  /\ scan.phase = "running" => scan.others < MaxInterleave
  /\ scan' = IF scan.phase = "running" THEN [scan EXCEPT !.others = @ + 1] ELSE scan

\* a thread calls heif_init()
DoInit ==
  /\ UNCHANGED <<mutex, pc>>
  /\ \E paths \in PluginPathChoices :
       \E r \in {heif_init(State, paths)} :
         /\ ~crashed
         /\ WithinBounds(r.s)
         /\ Commit(r.s)
         /\ last' = Called("init", r.err, "none", r.s.hooks)
         /\ OtherThread
         /\ UNCHANGED crashed

\* A thread calls heif_deinit().  When it uses a table of a module that is
\* no longer mapped, the behaviour is undefined: the call goes on as if the
\* module were mapped, or it faults and the process ends.
DoDeinit ==
  /\ UNCHANGED <<mutex, pc>>
  /\ \E s \in {heif_deinit(State)} :
       /\ ~crashed
       /\ \/ /\ Commit(s)
             /\ last' = Called("deinit", "none", "none", s.hooks)
             /\ OtherThread
             /\ UNCHANGED crashed
          \/ /\ s.ub
             /\ crashed' = TRUE
             /\ last' = Called("deinit", "fault", "none", NoHooks)
             /\ unchanged_program
             /\ UNCHANGED scan

\* a thread calls heif_load_plugin(path, &info)
DoLoad ==
  /\ UNCHANGED <<mutex, pc>>
  /\ \E path \in Paths :
       \E r \in {heif_load_plugin(State, path)} :
         /\ ~crashed
         /\ WithinBounds(r.s)
         /\ Commit(r.s)
         /\ last' = Called("load", r.err, r.info, r.s.hooks)
         /\ OtherThread
         /\ UNCHANGED crashed

\* A thread calls heif_unload_plugin(info).  When the last dlclose() unmaps
\* the module, unregister_plugin reads the unmapped info: the call goes on as
\* if the module were mapped, or it faults and the process ends.
DoUnload ==
  /\ UNCHANGED <<mutex, pc>>
  /\ \E info \in PluginInfos \cup {StrayInfo} :
       \E r \in {heif_unload_plugin(State, info)} :
         /\ ~crashed
         /\ \/ /\ Commit(r.s)
               /\ last' = Called("unload", r.err, info, r.s.hooks)
               /\ OtherThread
               /\ UNCHANGED crashed
            \/ /\ r.s.ub
               /\ crashed' = TRUE
               /\ last' = Called("unload", "fault", info, NoHooks)
               /\ unchanged_program
               /\ UNCHANGED scan

\* a thread calls heif_unload_all_plugins()
DoUnloadAll ==
  /\ UNCHANGED <<mutex, pc>>
  /\ \E s \in {heif_unload_all_plugins(State)} :
       /\ ~crashed
       /\ Commit(s)
       /\ last' = Called("unloadAll", "none", "none", s.hooks)
       /\ OtherThread
       /\ UNCHANGED crashed

\* The arguments of a scan besides the directory: whether out_plugins and
\* out_nPluginsLoaded are given, and output_array_size.  Without out_plugins
\* the size is not read; heif_init passes neither pointer.
ScanArgs ==
  { [hasOut |-> FALSE, hasCnt |-> FALSE, cap |-> 0],
    [hasOut |-> FALSE, hasCnt |-> TRUE, cap |-> 0] }
    \cup { [hasOut |-> TRUE, hasCnt |-> TRUE, cap |-> c] : c \in 0..MaxCap }

\* a thread calls heif_load_plugins(dir, out_plugins, out_nPluginsLoaded, cap)
\* and no call of another thread takes effect before it returns
DoScan ==
  /\ UNCHANGED <<mutex, pc>>
  /\ \E dir \in DirNames, a \in ScanArgs :
       \E r \in {heif_load_plugins(State, dir, a.hasOut, a.hasCnt, a.cap)} :
         /\ ~crashed
         /\ scan.phase = "idle"
         /\ WithinBounds(r.s)
         /\ Commit(r.s)
         /\ last' = Scanned(r.err, dir, a.hasOut, a.cap, r.sc, r.count)
         /\ UNCHANGED <<crashed, scan>>

\* a thread calls heif_load_plugins(dir, out_plugins, out_nPluginsLoaded, cap):
\* opendir()
ScanBegin ==
  /\ UNCHANGED <<mutex, pc>>
  /\ \E dir \in DirNames, a \in ScanArgs :
       /\ ~crashed
       /\ scan.phase = "idle"
       /\ IF Readable(dir)
          THEN /\ scan' = [IdleScan EXCEPT !.phase = "running", !.dir = dir,
                                           !.hasOut = a.hasOut, !.hasCnt = a.hasCnt,
                                           !.cap = a.cap]
               /\ last' = Called("scanBegin", "none", "none", NoHooks)
          ELSE /\ scan' = IdleScan
               /\ last' = Scanned("CannotReadDirectory", dir, a.hasOut, a.cap, ScanLocals, -1)
       /\ unchanged_program
       /\ UNCHANGED crashed

\* the index of the next entry at or after pos for which the loader is called
NextPluginFile(dir, pos) ==
  IF \E i \in pos..Len(Directory(dir)) : IsPluginFile(Directory(dir)[i])
  THEN CHOOSE i \in pos..Len(Directory(dir)) :
         /\ IsPluginFile(Directory(dir)[i])
         /\ \A j \in pos..(i - 1) : ~IsPluginFile(Directory(dir)[j])
  ELSE Len(Directory(dir)) + 1

\* the scanning thread reads on up to the next plugin file and has it loaded
ScanStep ==
  /\ ~crashed
  /\ scan.phase = "running"
  /\ ~scan.sc.brk
  /\ NextPluginFile(scan.dir, scan.pos) <= Len(Directory(scan.dir))
  /\ \E r \in {ScanLoop([s |-> State, sc |-> scan.sc], scan.dir, scan.pos,
                        NextPluginFile(scan.dir, scan.pos), scan.hasOut, scan.cap)} :
       /\ WithinBounds(r.s)
       /\ Commit(r.s)
       /\ scan' = [scan EXCEPT !.pos = NextPluginFile(scan.dir, scan.pos) + 1,
                               !.sc = r.sc]
  /\ last' = Called("scanStep", "none", "none", NoHooks)
  /\ UNCHANGED crashed
  /\ UNCHANGED <<mutex, pc>>

\* no plugin file is left, or the loop was left by break: the scan returns
ScanEnd ==
  /\ ~crashed
  /\ scan.phase = "running"
  /\ scan.sc.brk \/ NextPluginFile(scan.dir, scan.pos) > Len(Directory(scan.dir))
  /\ \E r \in {ScanDone([s |-> State, sc |-> scan.sc], scan.hasOut, scan.hasCnt,
                        scan.cap)} :
       last' = Scanned(r.err, scan.dir, scan.hasOut, scan.cap, r.sc, r.count)
  /\ scan' = IdleScan
  /\ unchanged_program
  /\ UNCHANGED crashed
  /\ UNCHANGED <<mutex, pc>>

\* the calls, each taking effect at once
Next ==
  \/ DoInit
  \/ DoDeinit
  \/ DoLoad
  \/ DoUnload
  \/ DoUnloadAll
  \/ DoScan

Spec == Init /\ [][Next]_vars

\* the calls, with a scan whose files are loaded one by one while other
\* threads' calls take effect in between
NextThreads ==
  \/ DoInit
  \/ DoDeinit
  \/ DoLoad
  \/ DoUnload
  \/ DoUnloadAll
  \/ ScanBegin
  \/ ScanStep
  \/ ScanEnd

SpecThreads == Init /\ [][NextThreads]_vars

-----------------------------------------------------------------------------
(* The calls with their lock: std::lock_guard<std::recursive_mutex> in
   heif_init, heif_deinit, heif_load_plugin, heif_unload_plugin and
   heif_unload_all_plugins.  A call's effect on the data is taken when the
   call gets the mutex; the calls it makes that lock again (heif_load_plugin
   for every file heif_init's scans find, heif_unload_all_plugins from the
   last heif_deinit) follow as steps that take and give back the mutex.
   heif_load_plugins itself takes no lock. *)

\* the functions that start with a lock_guard
LockedOps == {"init", "deinit", "load", "unload", "unloadAll"}

\* what get_plugin_paths() may return, with a search path that opens nothing
LockPathChoices == PluginPathChoices \cup { <<"missing">> }

\* a non-recursive mutex: lock() blocks whoever owns it
CanLock_NotRecursive(t) == mutex.owner = "none"

\* std::recursive_mutex::lock() does not block thread t
CanLock(t) == mutex.owner = "none" \/ mutex.owner = t

\* lock_guard's constructor and destructor
Take(t) == mutex' = [owner |-> t, depth |-> mutex.depth + 1]

Drop ==
  mutex' = [owner |-> IF mutex.depth = 1 THEN "none" ELSE mutex.owner,
            depth |-> mutex.depth - 1]

\* the number of files in dir for which the scanner calls heif_load_plugin,
\* from entry pos on, that dlopen() maps to the module m
PluginFilesFrom(dir, pos, m) ==
  Cardinality({i \in pos..Len(Directory(dir)) :
                 IsPluginFile(Directory(dir)[i]) /\ Directory(dir)[i].target = m})

\* the files the scans in progress have yet to load that map to m
PendingFiles(pcf, m) ==
  SumOver([u \in Threads |->
             IF pcf[u].op = "scan" THEN PluginFilesFrom(pcf[u].dir, pcf[u].pos, m) ELSE 0],
          Threads)

\* the state if every file the scans in progress have yet to load is opened
\* and registered: a scan is started only if the bounds hold for it
Worst(s, pcf) ==
  [s EXCEPT !.dlref = [m \in Modules |-> s.dlref[m] + PendingFiles(pcf, m)],
            !.decoders = [q \in DecoderTables |-> s.decoders[q] + PendingFiles(pcf, q)],
            !.encoders = [q \in EncoderTables |-> s.encoders[q] + PendingFiles(pcf, q)]]

\* the number of heif_load_plugin calls of the scans heif_init makes for
\* the directories dirs: those up to the first that cannot be read
NestedLoads(dirs) ==
  SumOver([j \in 1..Len(dirs) |->
             IF \A k \in 1..j : Readable(dirs[k])
             THEN Cardinality({i \in 1..Len(Directory(dirs[j])) :
                                 IsPluginFile(Directory(dirs[j])[i])})
             ELSE 0],
          1..Len(dirs))

\* where thread t is after it got the mutex for a call that makes n calls
\* that lock again
Locked(t, n) ==
  pc' = [pc EXCEPT ![t].at = IF n > 0 THEN "nested_lock" ELSE "unlock", ![t].nested = n]

\* thread t calls one of the locking functions and arrives at its lock_guard
Call(t) ==
  \E op \in LockedOps :
    /\ ~crashed
    /\ pc[t] = Idle
    /\ op = "init" =>
         heif_library_initialization_count
           + Cardinality({u \in Threads : pc[u].op = "init" /\ pc[u].at = "lock"}) < MaxInit
    /\ pc' = [pc EXCEPT ![t] = [Idle EXCEPT !.op = op, !.at = "lock"]]
    /\ unchanged_program
    /\ UNCHANGED <<crashed, last, scan, mutex>>

\* heif_init gets the mutex
LockInit(t) ==
  /\ ~crashed
  /\ pc[t].op = "init" /\ pc[t].at = "lock"
  /\ CanLock(t)
  /\ \E paths \in LockPathChoices :
       \E r \in {heif_init(State, paths)} :
         /\ WithinBounds(Worst(r.s, pc))
         /\ Commit(r.s)
         /\ Locked(t, IF heif_library_initialization_count = 0
                      THEN NestedLoads(SearchPath(paths)) ELSE 0)
  /\ Take(t)
  /\ UNCHANGED <<crashed, last, scan>>

\* heif_deinit gets the mutex; the last deinit calls heif_unload_all_plugins
LockDeinit(t) ==
  /\ ~crashed
  /\ pc[t].op = "deinit" /\ pc[t].at = "lock"
  /\ CanLock(t)
  /\ \E s \in {heif_deinit(State)} :
       \/ /\ Commit(s)
          /\ Locked(t, IF heif_library_initialization_count = 1 THEN 1 ELSE 0)
          /\ Take(t)
          /\ UNCHANGED crashed
       \/ /\ s.ub
          /\ crashed' = TRUE
          /\ unchanged_program
          /\ UNCHANGED <<mutex, pc>>
  /\ UNCHANGED <<last, scan>>

\* heif_load_plugin, called by a thread, gets the mutex
LockLoad(t) ==
  /\ ~crashed
  /\ pc[t].op = "load" /\ pc[t].at = "lock"
  /\ CanLock(t)
  /\ \E path \in Paths :
       \E r \in {heif_load_plugin(State, path)} :
         /\ WithinBounds(Worst(r.s, pc))
         /\ Commit(r.s)
  /\ Locked(t, 0)
  /\ Take(t)
  /\ UNCHANGED <<crashed, last, scan>>

\* heif_unload_plugin gets the mutex
LockUnload(t) ==
  /\ ~crashed
  /\ pc[t].op = "unload" /\ pc[t].at = "lock"
  /\ CanLock(t)
  /\ \E info \in PluginInfos \cup {StrayInfo} :
       \E r \in {heif_unload_plugin(State, info)} :
         \/ /\ Commit(r.s)
            /\ Locked(t, 0)
            /\ Take(t)
            /\ UNCHANGED crashed
         \/ /\ r.s.ub
            /\ crashed' = TRUE
            /\ unchanged_program
            /\ UNCHANGED <<mutex, pc>>
  /\ UNCHANGED <<last, scan>>

\* heif_unload_all_plugins, called by a thread, gets the mutex
LockUnloadAll(t) ==
  /\ ~crashed
  /\ pc[t].op = "unloadAll" /\ pc[t].at = "lock"
  /\ CanLock(t)
  /\ \E s \in {heif_unload_all_plugins(State)} : Commit(s)
  /\ Locked(t, 0)
  /\ Take(t)
  /\ UNCHANGED <<crashed, last, scan>>

\* a function called while the thread holds the mutex locks it again
LockNested(t) ==
  /\ ~crashed
  /\ pc[t].at = "nested_lock"
  /\ CanLock(t)
  /\ Take(t)
  /\ pc' = [pc EXCEPT ![t].at = "nested_unlock"]
  /\ unchanged_program
  /\ UNCHANGED <<crashed, last, scan>>

\* that function returns: its lock_guard is destroyed
UnlockNested(t) ==
  /\ ~crashed
  /\ pc[t].at = "nested_unlock"
  /\ Drop
  /\ Locked(t, pc[t].nested - 1)
  /\ unchanged_program
  /\ UNCHANGED <<crashed, last, scan>>

\* The call returns, by whichever return statement: its lock_guard is
\* destroyed.  A scan goes on reading its directory.
Unlock(t) ==
  /\ ~crashed
  /\ pc[t].at = "unlock"
  /\ Drop
  /\ pc' = [pc EXCEPT ![t] = IF pc[t].op = "scan"
                             THEN [pc[t] EXCEPT !.at = "readdir"]
                             ELSE Idle]
  /\ unchanged_program
  /\ UNCHANGED <<crashed, last, scan>>

\* thread t calls heif_load_plugins(dir, ...) and opendir() succeeds
CallScan(t) ==
  \E dir \in DirNames :
    /\ ~crashed
    /\ pc[t] = Idle
    /\ Readable(dir)
    /\ pc' = [pc EXCEPT ![t] = [Idle EXCEPT !.op = "scan", !.at = "readdir",
                                            !.dir = dir, !.pos = 1]]
    /\ WithinBounds(Worst(State, pc'))
    /\ unchanged_program
    /\ UNCHANGED <<crashed, last, scan, mutex>>

\* the scan reads on to the next plugin file and calls heif_load_plugin for
\* it, or finds none and returns
ReadDir(t) ==
  /\ ~crashed
  /\ pc[t].op = "scan" /\ pc[t].at = "readdir"
  /\ pc' = [pc EXCEPT ![t] =
              IF NextPluginFile(pc[t].dir, pc[t].pos) <= Len(Directory(pc[t].dir))
              THEN [pc[t] EXCEPT !.at = "lock", !.pos = NextPluginFile(pc[t].dir, pc[t].pos)]
              ELSE Idle]
  /\ unchanged_program
  /\ UNCHANGED <<crashed, last, scan, mutex>>

\* heif_load_plugin, called by the scan for the file at pos, gets the mutex
LockFile(t) ==
  /\ ~crashed
  /\ pc[t].op = "scan" /\ pc[t].at = "lock"
  /\ CanLock(t)
  /\ pc' = [pc EXCEPT ![t].at = "unlock", ![t].pos = @ + 1]
  /\ \E r \in {heif_load_plugin(State, <<pc[t].dir,
                                         Directory(pc[t].dir)[pc[t].pos].d_name>>)} :
       /\ WithinBounds(Worst(r.s, pc'))
       /\ Commit(r.s)
  /\ Take(t)
  /\ UNCHANGED <<crashed, last, scan>>

\* thread t gets the mutex
Lock(t) ==
  \/ LockInit(t)
  \/ LockDeinit(t)
  \/ LockLoad(t)
  \/ LockUnload(t)
  \/ LockUnloadAll(t)
  \/ LockNested(t)
  \/ LockFile(t)

\* thread t goes on in code that waits for nothing
Proceed(t) ==
  \/ UnlockNested(t)
  \/ Unlock(t)
  \/ ReadDir(t)

NextLocks ==
  \E t \in Threads :
    \/ Call(t)
    \/ CallScan(t)
    \/ Lock(t)
    \/ Proceed(t)

SpecLocks == Init /\ [][NextLocks]_vars

TypeOK ==
  /\ heif_library_initialization_count \in 0..MaxInit
  /\ default_plugins_registered \in BOOLEAN
  /\ s_decoder_plugins \in [DecoderTables -> 0..MaxReg]
  /\ s_encoder_descriptors \in [EncoderTables -> 0..MaxReg]
  /\ \A i \in 1..Len(sLoadedPlugins) :
       /\ sLoadedPlugins[i].plugin_library_handle \in Modules
       /\ sLoadedPlugins[i].info \in PluginInfos
       /\ sLoadedPlugins[i].openCnt \in 1..MaxOpen
  /\ dl_refcount \in [Modules -> 0..MaxOpen]
  /\ crashed \in BOOLEAN
  /\ scan.phase \in {"idle", "running"}
  /\ mutex.owner \in Threads \cup {"none"}
  /\ mutex.depth \in 0..2
  /\ \A t \in Threads :
       /\ pc[t].op \in LockedOps \cup {"idle", "scan"}
       /\ pc[t].at \in {"idle", "lock", "nested_lock", "nested_unlock", "unlock", "readdir"}

-----------------------------------------------------------------------------
(* The properties *)

\* how often the function table p is in the registrar of its type
TimesRegistered(p) ==
  IF p \in EncoderTables THEN s_encoder_descriptors[p] ELSE s_decoder_plugins[p]

\* the built-in decoder and the built-in encoder are each registered n times
BuiltinsRegistered(n) ==
  /\ s_encoder_descriptors[BuiltinEncoder] = n
  /\ s_decoder_plugins[BuiltinDecoder] = n

\* the open count of the registry entry for info, 0 if there is none
OpenCount(seq, info) ==
  IF \E i \in 1..Len(seq) : seq[i].info = info
  THEN (CHOOSE e \in Range(seq) : e.info = info).openCnt
  ELSE 0

\* the number of registry entries for info
EntriesFor(seq, info) == Cardinality({i \in 1..Len(seq) : seq[i].info = info})

\* the plugins a load of which succeeds: the registrar accepts them
LoadablePlugins == {i \in PluginInfos : ~RegistrarRejects(i)}

\* C1, as the specification states it: in every reachable state the
\* built-in plugins are registered exactly once while the count is above 0
\* and exactly zero times while it is 0, the initial state included.
C1_BuiltinsZeroAtCountZero ==
  /\ heif_library_initialization_count > 0 => BuiltinsRegistered(1)
  /\ heif_library_initialization_count = 0 => BuiltinsRegistered(0)

\* C1, amended: in every reachable state the built-in plugins are registered
\* exactly once while the count is above 0; while the count is 0 they are
\* registered zero times once a deinit has brought the count back to 0, and
\* exactly once before that (they are registered when the library starts,
\* and default_plugins_registered is true until the first full deinit).
C1_BuiltinsOnceWhileInitialized ==
  /\ heif_library_initialization_count > 0 => BuiltinsRegistered(1)
  /\ heif_library_initialization_count = 0 =>
       IF default_plugins_registered
       THEN BuiltinsRegistered(1)
       ELSE BuiltinsRegistered(0)

\* an init from count 0 after a full deinit has registered the built-ins again
C1_ReinitializedAfterFullDeinit ==
  /\ last.op = "init"
  /\ last.before = 0
  /\ ~default_plugins_registered
  /\ BuiltinsRegistered(1)

\* C2: for a plugin that loads successfully, a second load returns the same
\* info and leaves one entry with open count 2; the first of two unloads
\* succeeds and leaves the entry with open count 1 and the plugin
\* registered; the second succeeds, removes the entry, and takes the plugin
\* out of its registrar, exactly once.
C2_LoadTwiceUnloadTwice ==
  [][\A info \in LoadablePlugins :
       /\ ( /\ last'.op = "load" /\ last'.result = "ok" /\ last'.info = info
            /\ OpenCount(sLoadedPlugins, info) = 1 )
          => /\ OpenCount(sLoadedPlugins', info) = 2
             /\ EntriesFor(sLoadedPlugins', info) = 1
             /\ TimesRegistered(info)' = TimesRegistered(info)
       /\ ( /\ last'.op = "unload" /\ last'.info = info
            /\ OpenCount(sLoadedPlugins, info) = 2 )
          => /\ last'.result = "ok"
             /\ OpenCount(sLoadedPlugins', info) = 1
             /\ TimesRegistered(info)' = TimesRegistered(info)
       /\ ( /\ last'.op = "unload" /\ last'.info = info
            /\ OpenCount(sLoadedPlugins, info) = 1
            /\ TimesRegistered(info) = 1 )
          => /\ last'.result = "ok"
             /\ EntriesFor(sLoadedPlugins', info) = 0
             /\ TimesRegistered(info)' = 0
    ]_vars

\* C3: an unload of an info that no registry entry has returns
\* PluginNotLoaded and leaves the registry, both registrars, the count and
\* the modules' open counts as they were.
C3_UnloadOfUnknownInfo ==
  [][( /\ last'.op = "unload"
       /\ \A i \in 1..Len(sLoadedPlugins) : sLoadedPlugins[i].info # last'.info )
     => /\ last'.result = "PluginNotLoaded"
        /\ unchanged_program
    ]_vars

\* an unload of a plugin's info that has no entry was refused while other
\* plugins were loaded
C3_RefusedWhileOthersLoaded ==
  /\ last.op = "unload"
  /\ last.result = "PluginNotLoaded"
  /\ last.info \in PluginInfos
  /\ sLoadedPlugins # << >>

\* C4: the count a scan reports is the number of files it loaded
\* successfully, whatever the capacity of the output array; with capacity 0
\* no handle is written to the array.
C4_CountIsNumberLoaded ==
  (last.op = "scan" /\ last.scan.count # -1)
    => /\ last.scan.count = last.scan.sc.succeeded
       /\ (last.scan.hasOut /\ last.scan.cap = 0)
            => \A i \in 0..MaxCap : last.scan.sc.buf[i] \notin PluginInfos

\* the entry is a regular file or a symbolic link whose name is a non-empty
\* stem followed by ".so"
PluginSuffixed(e) ==
  /\ e.d_type \in {DT_REG, DT_LNK}
  /\ \E k \in 1..Len(e.d_name) : e.d_name = SubSeq(e.d_name, 1, k) \o Suffix

\* the names of the plugin-suffixed entries of a directory, in its order
PluginSuffixedNames(dir) ==
  [i \in 1..Len(SelectSeq(Directory(dir), PluginSuffixed)) |->
     SelectSeq(Directory(dir), PluginSuffixed)[i].d_name]

\* the number of plugin-suffixed entries of a directory whose module exports
\* a plugin that is in the set ps
NumberOfPlugins(dir, ps) ==
  Cardinality({i \in 1..Len(Directory(dir)) :
                 /\ PluginSuffixed(Directory(dir)[i])
                 /\ Directory(dir)[i].target \in ps})

TornDown ==
  /\ sLoadedPlugins' = << >>
  /\ \A m \in Modules : dl_refcount'[m] = dl_refcount[m] - OpenCount(sLoadedPlugins, m)
  /\ \A p \in Tables : TimesRegistered(p)' = 0
  /\ ~default_plugins_registered'

\* C6: an init at a count of 1 or more registers nothing and loads nothing,
\* an init at count 0 leaves the built-ins registered once; a deinit that
\* returns at a count above 1 only decrements the count, a deinit at count 1
\* tears down and leaves the count 0, and a deinit at count 0 changes
\* nothing and returns.
C6_FirstInitLastDeinit ==
  [][ /\ (last'.op = "init" /\ heif_library_initialization_count >= 1)
         => /\ heif_library_initialization_count' = heif_library_initialization_count + 1
            /\ last'.result = "ok"
            /\ UNCHANGED << default_plugins_registered, s_decoder_plugins,
                            s_encoder_descriptors, sLoadedPlugins, dl_refcount >>
      /\ (last'.op = "init" /\ heif_library_initialization_count = 0)
         => /\ heif_library_initialization_count' = 1
            /\ BuiltinsRegistered(1)'
      /\ ( /\ last'.op = "deinit" /\ last'.result # "fault"
           /\ heif_library_initialization_count > 1 )
         => /\ heif_library_initialization_count' = heif_library_initialization_count - 1
            /\ UNCHANGED << default_plugins_registered, s_decoder_plugins,
                            s_encoder_descriptors, sLoadedPlugins, dl_refcount >>
      /\ ( /\ last'.op = "deinit" /\ last'.result # "fault"
           /\ heif_library_initialization_count = 1 )
         => /\ heif_library_initialization_count' = 0
            /\ TornDown
      /\ (last'.op = "deinit" /\ heif_library_initialization_count = 0)
         => /\ last'.result = "none"
            /\ unchanged_program
    ]_vars

\* the deinit that found the count at 1 has called the built-in encoder's
\* cleanup hook and left no built-in registered
C6_LastDeinitToreDown ==
  /\ last.op = "deinit"
  /\ last.before = 1
  /\ last.hooks[BuiltinEncoder] = 1
  /\ heif_library_initialization_count = 0
  /\ BuiltinsRegistered(0)

\* C7: a deinit at count 0 returns and leaves the count, the flag, the
\* registry, both registrars and the modules' open counts unchanged; the
\* count is never negative.
C7_StrayDeinitIsNoop ==
  [][ /\ heif_library_initialization_count' >= 0
      /\ (last'.op = "deinit" /\ heif_library_initialization_count = 0)
         => /\ last'.result = "none"
            /\ unchanged_program
    ]_vars

\* a deinit was called at count 0 while plugins loaded by heif_load_plugin
\* were in the registry
C7_StrayDeinitWithPluginsLoaded ==
  /\ last.op = "deinit"
  /\ last.before = 0
  /\ heif_library_initialization_count = 0
  /\ sLoadedPlugins # << >>

\* no two entries of the registry have the same handle
NoDuplicateHandles ==
  \A i, j \in 1..Len(sLoadedPlugins) :
    sLoadedPlugins[i].plugin_library_handle = sLoadedPlugins[j].plugin_library_handle
      => i = j

\* C8: the registry never has two entries with the same handle; a load that
\* finds its handle in the registry adds 1 to that entry's open count and
\* appends no entry.
C8_OneEntryPerHandle ==
  [][ /\ NoDuplicateHandles'
      /\ ( /\ last'.op = "load" /\ last'.result = "ok"
           /\ \E i \in 1..Len(sLoadedPlugins) :
                sLoadedPlugins[i].plugin_library_handle = last'.info )
         => /\ Len(sLoadedPlugins') = Len(sLoadedPlugins)
            /\ OpenCount(sLoadedPlugins', last'.info)
                 = OpenCount(sLoadedPlugins, last'.info) + 1
    ]_vars

\* a module was loaded a second time while another module was loaded too
C8_LoadedAgain ==
  /\ last.op = "load"
  /\ last.result = "ok"
  /\ OpenCount(sLoadedPlugins, last.info) = 2
  /\ Len(sLoadedPlugins) = 2

\* C9: a call invokes a table's cleanup hook once for each registration of
\* the table it removes, and not otherwise: never twice for one registration.
C9_HookOncePerUnregistration ==
  [][\A p \in Tables :
       HasHook(p) =>
         last'.hooks[p] = IF TimesRegistered(p)' < TimesRegistered(p)
                          THEN TimesRegistered(p) - TimesRegistered(p)'
                          ELSE 0
    ]_vars

\* C10: heif_unload_all_plugins leaves the registry empty, the plugin of
\* every entry it had unregistered, and no module open; a scan of a
\* directory without plugin files that follows it reports 0 and leaves the
\* registry empty.
C10_UnloadAllReleasesEverything ==
  [][ /\ last'.op = "unloadAll"
         => /\ sLoadedPlugins' = << >>
            /\ \A p \in PluginInfos :
                 EntriesFor(sLoadedPlugins, p) > 0 => TimesRegistered(p)' = 0
            /\ \A m \in Modules : dl_refcount'[m] = 0
      /\ (last.op = "unloadAll" /\ last'.op = "scan" /\ last'.scan.dir = "empty")
         => /\ last'.result = "ok"
            /\ last'.scan.count \in {0, -1}
            /\ sLoadedPlugins' = << >>
    ]_vars

\* the search paths with a directory that cannot be read, and the index of
\* the first such directory
FailingPaths ==
  {ps \in PluginPathChoices : \E k \in 1..Len(ps) : ~Readable(ps[k])}

FirstUnreadable(ps) ==
  CHOOSE k \in 1..Len(ps) : ~Readable(ps[k]) /\ \A j \in 1..(k - 1) : Readable(ps[j])

\* the number of plugin-suffixed files for the module m in the directories
\* of ps before the first that cannot be read
FilesBeforeFailure(ps, m) ==
  SumOver([j \in 1..(FirstUnreadable(ps) - 1) |-> NumberOfPlugins(ps[j], {m})],
          1..(FirstUnreadable(ps) - 1))

\* C11: an init that returns an error was the init from count 0 and
\* returns the scan's error; it leaves the count at 1; the modules of the
\* directories before the unreadable one have been opened, once per file,
\* their accepted plugins have an entry and are registered, and no file of
\* a later directory has been opened; a deinit that follows and returns
\* leaves the count 0 and the registry empty.
C11_FailedInitKeepsCountAndPlugins ==
  [][ /\ (last'.op = "init" /\ last'.result # "ok")
         => /\ heif_library_initialization_count = 0
            /\ heif_library_initialization_count' = 1
            /\ last'.result = "CannotReadDirectory"
            /\ \E ps \in FailingPaths :
                 \A m \in Modules :
                   /\ dl_refcount'[m] = dl_refcount[m] + FilesBeforeFailure(ps, m)
                   /\ (m \in LoadablePlugins /\ FilesBeforeFailure(ps, m) > 0)
                        => /\ EntriesFor(sLoadedPlugins', m) = 1
                           /\ OpenCount(sLoadedPlugins', m)
                                = OpenCount(sLoadedPlugins, m) + FilesBeforeFailure(ps, m)
                           /\ TimesRegistered(m)' >= 1
            /\ \A i \in 1..Len(sLoadedPlugins) :
                 sLoadedPlugins'[i].info = sLoadedPlugins[i].info
      /\ ( /\ last.op = "init" /\ last.result # "ok"
           /\ last'.op = "deinit" /\ last'.result # "fault" )
         => /\ heif_library_initialization_count' = 0
            /\ sLoadedPlugins' = << >>
    ]_vars

\* an init has failed on an unreadable directory after it loaded plugins
\* from the directory before it
C11_InitFailedAfterLoading ==
  /\ last.op = "init"
  /\ last.result = "CannotReadDirectory"
  /\ heif_library_initialization_count = 1
  /\ OpenCount(sLoadedPlugins, "enc") = 2

\* the mutex is owned exactly while its depth is above 0, by a thread that
\* is in a call past its lock_guard, and a thread in no call does not own it
LockBalanced ==
  /\ mutex.owner = "none" <=> mutex.depth = 0
  /\ \A t \in Threads :
       /\ pc[t].at \in {"idle", "lock", "readdir"} => mutex.owner # t
       /\ pc[t].at \in {"nested_lock", "unlock"} => mutex.owner = t /\ mutex.depth = 1
       /\ pc[t].at = "nested_unlock" => mutex.owner = t /\ mutex.depth = 2

\* the call of thread t that waits at its lock_guard has inputs with
\* which the state stays within the bounds of the model
HasInput(t) ==
  CASE pc[t].op = "init" ->
         \E paths \in LockPathChoices : WithinBounds(Worst(heif_init(State, paths).s, pc))
    [] pc[t].op = "load" ->
         \E path \in Paths : WithinBounds(Worst(heif_load_plugin(State, path).s, pc))
    [] pc[t].op = "scan" ->
         WithinBounds(Worst(
           heif_load_plugin(State, <<pc[t].dir, Directory(pc[t].dir)[pc[t].pos].d_name>>).s,
           [pc EXCEPT ![t].pos = @ + 1]))
    [] OTHER -> TRUE

\* thread t, which is in a call, can take its next step: it is past a
\* lock_guard and waits for nothing, or the mutex does not block it
CanStep(t) ==
  \/ pc[t].at \in {"nested_unlock", "unlock", "readdir"}
  \/ pc[t].at = "nested_lock" /\ CanLock(t)
  \/ pc[t].at = "lock" /\ CanLock(t) /\ HasInput(t)

\* C12: with threads calling init, deinit, load, unload, unloadAll and scan
\* concurrently, the mutex is given back as often as it was taken whenever
\* a call has returned, a thread that owns the mutex takes it again without
\* waiting, and no deadlock is reachable: unless the process has faulted on
\* a read of an unmapped module, every thread that is in a call can take
\* its next step, or waits for the mutex while the thread that owns it can
\* take its next step.
C12_NoDeadlock ==
  /\ LockBalanced
  /\ ~crashed =>
       \A t \in Threads :
         /\ pc[t].at = "nested_lock" => CanLock(t)
         /\ pc[t].at # "idle" =>
              \/ CanStep(t)
              \/ /\ pc[t].at = "lock"
                 /\ \E u \in Threads \ {t} : mutex.owner = u /\ CanStep(u)

\* a thread owns the mutex twice over, in a call made by the call that
\* locked first, while the other thread waits at its lock_guard
C12_NestedWhileOtherWaits ==
  \E t, u \in Threads :
    /\ t # u
    /\ mutex.owner = t
    /\ mutex.depth = 2
    /\ pc[u].at = "lock"

\* C13: a load that returns the plugin loading error, as it does when the
\* module was opened and has no plugin_info symbol, leaves every module's
\* open count as it was before the call, and the registry and the
\* registrars unchanged.
C13_FailedSymbolLookupReleasesModule ==
  [][(last'.op = "load" /\ last'.result = "PluginLoadingError") => unchanged_program]_vars

\* C14: in every reachable state a dynamically loaded plugin that is in a
\* registrar has an entry in the registry: when the entry is removed, by
\* the unload that brings its open count to 0 or by unloadAll, the plugin
\* is removed from its registrar in the same operation.
C14_RegisteredOnlyWithEntry ==
  \A p \in PluginInfos : TimesRegistered(p) > 0 => EntriesFor(sLoadedPlugins, p) > 0

\* C15: in every reachable state, a call of unload, unloadAll or deinit
\* reads no info and no function table, and calls no hook, of a module whose
\* open count is 0.
C15_ReadsOnlyWhileMapped ==
  /\ \A info \in PluginInfos : ~heif_unload_plugin(State, info).s.ub
  /\ ~heif_unload_all_plugins(State).ub
  /\ ~heif_deinit(State).ub

\* C16: an init at a count of 1 or more returns success, adds 1 to the
\* count, calls no hook and changes nothing else; a deinit at a count above
\* 1 returns, takes 1 from the count, calls no hook and changes nothing else.
C16_NestedCallsChangeOnlyCount ==
  [][ /\ (last'.op = "init" /\ heif_library_initialization_count >= 1)
         => /\ last'.result = "ok"
            /\ last'.hooks = NoHooks
            /\ heif_library_initialization_count' = heif_library_initialization_count + 1
            /\ UNCHANGED << default_plugins_registered, s_decoder_plugins,
                            s_encoder_descriptors, sLoadedPlugins, dl_refcount, crashed >>
      /\ (last'.op = "deinit" /\ heif_library_initialization_count > 1)
         => /\ last'.result = "none"
            /\ last'.hooks = NoHooks
            /\ heif_library_initialization_count' = heif_library_initialization_count - 1
            /\ UNCHANGED << default_plugins_registered, s_decoder_plugins,
                            s_encoder_descriptors, sLoadedPlugins, dl_refcount, crashed >>
    ]_vars

\* a deinit at count 2 has returned while plugins were loaded
C16_NestedDeinitWithPlugins ==
  /\ last.op = "deinit"
  /\ last.before = 2
  /\ heif_library_initialization_count = 1
  /\ sLoadedPlugins # << >>

\* the slots 1..k of the buffer hold, in the order of the directory, infos
\* of files the scan had loaded
InEncounterOrder(sc, dir, k) ==
  \E f \in [1..k -> 1..Len(sc.attempted)] :
    /\ \A i \in 1..k : sc.buf[i - 1] = Dlopen(<<dir, sc.attempted[f[i]]>>)
    /\ \A i, j \in 1..k : i < j => f[i] < f[j]

\* C17: a scan of a readable directory with an output buffer of capacity cap
\* writes no slot at or beyond cap; the k infos it reports are in slots
\* 0..k-1, k <= cap, in the order the files were met; the slot k holds the
\* null exactly if k < cap; if a load succeeds when the buffer is full the
\* scan stops there: no later file is loaded, and the plugin of that load is
\* in the registry and not in the count; otherwise every plugin file of the
\* directory was tried.
C17_OutputBufferWithinCapacity ==
  (last.op = "scan" /\ last.result = "ok" /\ last.scan.hasOut) =>
    /\ last.scan.sc.nPlugins <= last.scan.cap
    /\ last.scan.count = last.scan.sc.nPlugins
    /\ \A i \in 0..MaxCap :
         /\ i < last.scan.sc.nPlugins => last.scan.sc.buf[i] \in PluginInfos
         /\ i = last.scan.sc.nPlugins =>
              last.scan.sc.buf[i] = (IF i < last.scan.cap THEN "null" ELSE "unset")
         /\ i > last.scan.sc.nPlugins => last.scan.sc.buf[i] = "unset"
    /\ InEncounterOrder(last.scan.sc, last.scan.dir, last.scan.sc.nPlugins)
    /\ last.scan.sc.attempted =
         SubSeq(PluginSuffixedNames(last.scan.dir), 1, Len(last.scan.sc.attempted))
    /\ IF last.scan.sc.brk
       THEN /\ last.scan.sc.nPlugins = last.scan.cap
            /\ last.scan.sc.succeeded = last.scan.cap + 1
            /\ EntriesFor(sLoadedPlugins,
                          Dlopen(<<last.scan.dir,
                                   last.scan.sc.attempted[Len(last.scan.sc.attempted)]>>)) > 0
       ELSE /\ last.scan.sc.succeeded = last.scan.sc.nPlugins
            /\ last.scan.sc.attempted = PluginSuffixedNames(last.scan.dir)

\* a scan filled a buffer of capacity 1, loaded one more plugin and stopped
\* before the end of the directory
C17_StoppedOnFullBuffer ==
  /\ last.op = "scan"
  /\ last.scan.hasOut
  /\ last.scan.cap = 1
  /\ last.scan.sc.brk
  /\ last.scan.sc.buf[0] \in PluginInfos
  /\ Len(last.scan.sc.attempted) < Len(PluginSuffixedNames(last.scan.dir))

\* every entry of the registry has an open count of 1 or more
AllOpen(seq) == \A i \in 1..Len(seq) : seq[i].openCnt >= 1

\* C18: after every step every registry entry has an open count of 1 or
\* more; a load that succeeds leaves one entry for its plugin, with count 1
\* if there was none before and with the count raised by 1 otherwise; an
\* unload that succeeds lowers the count by 1 and, if that makes it 0,
\* removes the entry in the same step.
C18_OpenCountAtLeastOne ==
  [][ /\ AllOpen(sLoadedPlugins')
      /\ \A info \in PluginInfos :
           /\ (last'.op = "load" /\ last'.result = "ok" /\ last'.info = info)
              => /\ OpenCount(sLoadedPlugins', info) = OpenCount(sLoadedPlugins, info) + 1
                 /\ EntriesFor(sLoadedPlugins', info) = 1
           /\ (last'.op = "unload" /\ last'.result = "ok" /\ last'.info = info)
              => /\ OpenCount(sLoadedPlugins, info) >= 1
                 /\ OpenCount(sLoadedPlugins', info) = OpenCount(sLoadedPlugins, info) - 1
                 /\ EntriesFor(sLoadedPlugins', info) =
                      (IF OpenCount(sLoadedPlugins, info) = 1 THEN 0 ELSE 1)
    ]_vars

\* an unload has removed its plugin's entry and left another plugin loaded twice
C18_EntryRemovedAtZero ==
  /\ last.op = "unload"
  /\ last.result = "ok"
  /\ EntriesFor(sLoadedPlugins, last.info) = 0
  /\ \E i \in 1..Len(sLoadedPlugins) : sLoadedPlugins[i].openCnt = 2

\* the number of slots 0..k-1 of the buffer that hold info
Reported(sc, info) ==
  Cardinality({i \in 0..(sc.nPlugins - 1) : sc.buf[i] = info})

\* C19: when a scan called with an output buffer returns, every plugin it
\* wrote to the buffer has a registry entry whose open count covers the
\* references the scan reported for it, as it must if no other thread's
\* load, unload, unloadAll or deinit took effect between the scan's loads.
C19_ScanSerializedWithOtherCalls ==
  (last.op = "scan" /\ last.result = "ok" /\ last.scan.hasOut) =>
    \A info \in PluginInfos :
      Reported(last.scan.sc, info) <= OpenCount(sLoadedPlugins, info)

\* C20: a load that returns an error leaves the registry as it was before
\* the call, and after every step the plugin of every registry entry is
\* registered in its registrar.
C20_FailedLoadLeavesNoEntry ==
  [][ /\ (last'.op = "load" /\ last'.result # "ok") => sLoadedPlugins' = sLoadedPlugins
      /\ \A info \in PluginInfos :
           EntriesFor(sLoadedPlugins', info) > 0 => TimesRegistered(info)' >= 1
    ]_vars

====
